---------------------------- MODULE Spec2Model ----------------------------
(***************************************************************************)
(* Model of src/model.py: the Matcha wrapper's layer-freezing policy and   *)
(* the AWP (adversarial weight perturbation) save / attack / restore       *)
(* cycle.                                                                  *)
(*                                                                         *)
(* Tensors are finite sequences of floating-point values.  A value is      *)
(* either finite (an integer count of grid units, one unit being 1e-6, so  *)
(* that the stability floor e = 1e-6 of _attack_step is exactly one unit), *)
(* an infinity, or NaN; the arithmetic follows IEEE-754 for the special    *)
(* values and rounds finite quotients and square roots to the nearest grid *)
(* point.                                                                  *)
(***************************************************************************)
EXTENDS Integers, Sequences, FiniteSets, TLC

(***************************************************************************)
(* Bounds of the model.                                                    *)
(***************************************************************************)
\* number of elements of a weight tensor
TensorLen == 1
\* largest num_hidden_layers tried by the construction specification
MaxLayers == 20
\* num_hidden_layers of the backbone the AWP specification trains
NumHiddenLayers == 12

(***************************************************************************)
(* Floating-point values.                                                  *)
(***************************************************************************)
Fin(n) == [k |-> "fin", v |-> n]
NaN == [k |-> "nan", v |-> 0]
PInf == [k |-> "inf", v |-> 1]

IsNaN(x) == x.k = "nan"
IsInf(x) == x.k = "inf"
IsFin(x) == x.k = "fin"

Sgn(n) == IF n > 0 THEN 1 ELSE IF n < 0 THEN -1 ELSE 0
AbsInt(n) == IF n < 0 THEN -n ELSE n
Inf(s) == [k |-> "inf", v |-> s]

\* x <= y for two values neither of which is NaN
FLe(x, y) ==
    CASE IsFin(x) /\ IsFin(y) -> x.v <= y.v
      [] IsInf(x) /\ IsInf(y) -> x.v <= y.v
      [] IsInf(x) -> x.v < 0
      [] OTHER -> y.v > 0

FNeg(x) == IF IsNaN(x) THEN NaN ELSE [k |-> x.k, v |-> -x.v]
FAbs(x) == IF IsNaN(x) THEN NaN ELSE [k |-> x.k, v |-> AbsInt(x.v)]

FAdd(x, y) ==
    CASE IsNaN(x) \/ IsNaN(y) -> NaN
      [] IsInf(x) /\ IsInf(y) -> IF x.v = y.v THEN x ELSE NaN
      [] IsInf(x) -> x
      [] IsInf(y) -> y
      [] OTHER -> Fin(x.v + y.v)

FSub(x, y) == FAdd(x, FNeg(y))

FMul(x, y) ==
    CASE IsNaN(x) \/ IsNaN(y) -> NaN
      [] IsInf(x) \/ IsInf(y) ->
            IF Sgn(x.v) * Sgn(y.v) = 0 THEN NaN ELSE Inf(Sgn(x.v) * Sgn(y.v))
      [] OTHER -> Fin(x.v * y.v)

\* p / q for integers, q > 0, rounded to the nearest integer
RoundDiv(p, q) == (2 * p + q) \div (2 * q)

FDiv(x, y) ==
    CASE IsNaN(x) \/ IsNaN(y) -> NaN
      [] IsInf(x) /\ IsInf(y) -> NaN
      [] IsInf(x) -> Inf(IF y.v < 0 THEN -x.v ELSE x.v)
      [] IsInf(y) -> Fin(0)
      [] y.v = 0 -> IF x.v = 0 THEN NaN ELSE Inf(Sgn(x.v))
      [] OTHER -> Fin(Sgn(y.v) * RoundDiv(x.v * Sgn(y.v), AbsInt(y.v)))

\* torch.max / torch.min of two tensors, elementwise: NaN propagates
FMax(x, y) == IF IsNaN(x) \/ IsNaN(y) THEN NaN ELSE IF FLe(x, y) THEN y ELSE x
FMin(x, y) == IF IsNaN(x) \/ IsNaN(y) THEN NaN ELSE IF FLe(x, y) THEN x ELSE y

\* x / y * z as the code evaluates it, left to right; when the three are
\* finite the rounding onto the grid is done once, on the final value
FDivMul(x, y, z) ==
    IF IsFin(x) /\ IsFin(y) /\ IsFin(z) /\ y.v # 0
    THEN Fin(Sgn(y.v) * RoundDiv(x.v * z.v * Sgn(y.v), AbsInt(y.v)))
    ELSE FMul(FDiv(x, y), z)

(***************************************************************************)
(* Tensors.                                                                *)
(***************************************************************************)
TAdd(a, b) == [i \in DOMAIN a |-> FAdd(a[i], b[i])]
TSub(a, b) == [i \in DOMAIN a |-> FSub(a[i], b[i])]
TAbs(a) == [i \in DOMAIN a |-> FAbs(a[i])]
TScale(c, a) == [i \in DOMAIN a |-> FMul(c, a[i])]
TMax(a, b) == [i \in DOMAIN a |-> FMax(a[i], b[i])]
TMin(a, b) == [i \in DOMAIN a |-> FMin(a[i], b[i])]
TZeros(a) == [i \in DOMAIN a |-> Fin(0)]

RECURSIVE SumSq(_, _)
SumSq(a, i) == IF i = 0 THEN 0 ELSE a[i].v * a[i].v + SumSq(a, i - 1)

\* square root of a natural number, rounded to the nearest integer
ISqrt(n) ==
    LET r == CHOOSE s \in 0..n : s * s <= n /\ n < (s + 1) * (s + 1)
    IN  IF n - r * r <= r THEN r ELSE r + 1

\* torch.norm: the 2-norm over all elements
Norm(a) ==
    IF \E i \in DOMAIN a : IsNaN(a[i]) THEN NaN
    ELSE IF \E i \in DOMAIN a : IsInf(a[i]) THEN PInf
    ELSE Fin(ISqrt(SumSq(a, Len(a))))

(***************************************************************************)
(* The model's named parameters.  A name is the sequence of its            *)
(* characters, so that `adv_param in name` is substring containment.       *)
(***************************************************************************)
weight == <<"w", "e", "i", "g", "h", "t">>
bias == <<"b", "i", "a", "s">>

\* model.named_parameters(), in registration order
NamedParameters == <<"e0.weight", "e9.weight", "e9.bias">>
ParamIds == {NamedParameters[i] : i \in 1..Len(NamedParameters)}

Name(p) ==
    CASE p = "e0.weight" -> <<"e", "0", ".">> \o weight
      [] p = "e9.weight" -> <<"e", "9", ".">> \o weight
      [] p = "e9.bias" -> <<"e", "9", ".">> \o bias

\* index of the encoder layer that owns the parameter
LayerOf(p) ==
    CASE p = "e0.weight" -> 0
      [] p = "e9.weight" -> 9
      [] p = "e9.bias" -> 9

\* number of elements of the parameter's tensor: a weight vector, a scalar bias
Numel(p) == IF p = "e9.bias" THEN 1 ELSE TensorLen

\* Python's `sub in s` on strings
Contains(sub, s) ==
    \E i \in 0..(Len(s) - Len(sub)) : SubSeq(s, i + 1, i + Len(sub)) = sub

(***************************************************************************)
(* Inputs.                                                                 *)
(***************************************************************************)
ParamVals == {Fin(-2), Fin(0), Fin(3)}
GradVals == {Fin(0), Fin(1), NaN, PInf}
BiasVals == {Fin(-2), Fin(3)}
BiasGradVals == {Fin(1)}
\* the values an optimizer step can give a parameter
ParamTensors(p) == [1..Numel(p) -> IF p = "e9.bias" THEN BiasVals ELSE ParamVals]
\* the gradients a backward pass can give a parameter
GradTensors(p) == [1..Numel(p) -> IF p = "e9.bias" THEN BiasGradVals ELSE GradVals]
\* the weights loaded by from_pretrained
PretrainedData == [p \in ParamIds |-> [i \in 1..Numel(p) |-> Fin(3)]]
\* an empty gradient slot (param.grad is None)
None == << >>
AdvLrs == {0, 1, 3}
AdvEpss == {-1, 0, 1}
AdvParams == {weight, bias}

EmptyMap == [x \in {} |-> x]

VARIABLES
    num_hidden_layers,   \* backbone_config.num_hidden_layers
    layer_requires_grad, \* encoder layer index -> requires_grad of its parameters
    emb_requires_grad,   \* requires_grad of the embedding parameters
    ctor_pc,             \* position inside Matcha.__init__
    ctor_i,              \* index of the freezing loop over encoder.layer[:k]
    data,                \* parameter -> param.data
    grad,                \* parameter -> param.grad (None or a tensor)
    grad_from,           \* which losses the gradient slots have accumulated
    adv_param, adv_lr, adv_eps, \* AWP configuration
    backup,              \* AWP.backup
    backup_eps,          \* AWP.backup_eps: name -> <<lower, upper>>
    pc,                  \* position inside AWP.attack_backward, or "idle"
    adv_loss,            \* local adv_loss of attack_backward
    calls,               \* the calls attack_backward has made so far
    pre                  \* the state when attack_backward was entered

ctor_vars == <<num_hidden_layers, layer_requires_grad, emb_requires_grad, ctor_pc, ctor_i>>
awp_vars == <<data, grad, grad_from, adv_param, adv_lr, adv_eps, backup, backup_eps,
              pc, adv_loss, calls, pre>>
vars == <<ctor_vars, awp_vars>>

(***************************************************************************)
(* Matcha.__init__: the freezing policy.                                   *)
(***************************************************************************)
\* int(0.4 * n): the double product 0.4 * n truncated toward zero
ToFreezeLayer(n) == (4 * n) \div 10

\* a slice that takes one element too many
SliceThrough(k, n) == {i \in 0..(n - 1) : i <= k}

\* the indices of a Python slice seq[:k] of a sequence of length n, k >= 0
SliceUpTo(k, n) == {i \in 0..(n - 1) : i < k}

\* for param in layer.parameters(): param.requires_grad = False
FreezeLayer(rg, i) == [rg EXCEPT ![i] = FALSE]

RECURSIVE FreezeLayers(_, _, _)
\* the loop over encoder.layer[:k] from index i on
FreezeLayers(rg, i, k) ==
    IF i \in SliceUpTo(k, Cardinality(DOMAIN rg))
    THEN FreezeLayers(FreezeLayer(rg, i), i + 1, k)
    ELSE rg

\* the pretrained backbone: every parameter trainable
Pretrained(n) == [i \in 0..(n - 1) |-> TRUE]

CtorInit ==
    /\ num_hidden_layers \in 0..MaxLayers
    /\ layer_requires_grad = Pretrained(num_hidden_layers)
    /\ emb_requires_grad = TRUE
    /\ ctor_pc = "freeze_layers"
    /\ ctor_i = 0

CtorFreezeLayer ==
    /\ ctor_pc = "freeze_layers"
    /\ ctor_i \in SliceUpTo(ToFreezeLayer(num_hidden_layers), num_hidden_layers)
    /\ layer_requires_grad' = FreezeLayer(layer_requires_grad, ctor_i)
    /\ ctor_i' = ctor_i + 1
    /\ UNCHANGED <<num_hidden_layers, emb_requires_grad, ctor_pc>>

CtorLayersDone ==
    /\ ctor_pc = "freeze_layers"
    /\ ctor_i \notin SliceUpTo(ToFreezeLayer(num_hidden_layers), num_hidden_layers)
    /\ ctor_pc' = "freeze_embeddings"
    /\ UNCHANGED <<num_hidden_layers, layer_requires_grad, emb_requires_grad, ctor_i>>

CtorFreezeEmbeddings ==
    /\ ctor_pc = "freeze_embeddings"
    /\ emb_requires_grad' = FALSE
    /\ ctor_pc' = "done"
    /\ UNCHANGED <<num_hidden_layers, layer_requires_grad, ctor_i>>

(***************************************************************************)
(* AWP.                                                                    *)
(***************************************************************************)
RequiresGrad(p) == layer_requires_grad[LayerOf(p)]

\* the filter without its test of the name
MatchedAnyName(p) == RequiresGrad(p) /\ grad[p] # None

\* param.requires_grad and param.grad is not None and self.adv_param in name
Matched(p) ==
    /\ RequiresGrad(p)
    /\ grad[p] # None
    /\ Contains(adv_param, Name(p))

\* (backup[name] - grad_eps, backup[name] + grad_eps), grad_eps = adv_eps * |param|
ClampInterval(t) ==
    LET grad_eps == TScale(Fin(adv_eps), TAbs(t))
    IN  <<TSub(t, grad_eps), TAdd(t, grad_eps)>>

\* _save without `if name not in self.backup`
SaveNamesOverwriting == {p \in ParamIds : Matched(p)}

\* the names _save snapshots: matched and not yet backed up
SaveNames == {p \in ParamIds : Matched(p) /\ p \notin DOMAIN backup}

SaveBackup ==
    [p \in DOMAIN backup \cup SaveNames |->
        IF p \in SaveNames THEN data[p] ELSE backup[p]]

SaveBackupEps ==
    [p \in DOMAIN backup_eps \cup SaveNames |->
        IF p \in SaveNames THEN ClampInterval(data[p]) ELSE backup_eps[p]]

\* the stability floor e = 1e-6, one grid unit
e == 1

\* _attack_step without `not torch.isnan(norm1)`
PerturbedNoNaNTest(p) == Matched(p) /\ Norm(grad[p]) # Fin(0)

\* whether _attack_step perturbs the parameter: norm1 != 0 and not isnan(norm1)
Perturbed(p) ==
    /\ Matched(p)
    /\ Norm(grad[p]) # Fin(0)
    /\ ~IsNaN(Norm(grad[p]))

\* r_at = adv_lr * param.grad / (norm1 + e) * (norm2 + e)
RAt(p) ==
    LET norm1 == Norm(grad[p])
        norm2 == Norm(data[p])
    IN  [i \in DOMAIN grad[p] |->
            FDivMul(FMul(Fin(adv_lr), grad[p][i]), FAdd(norm1, Fin(e)), FAdd(norm2, Fin(e)))]

\* param.data.add_(r_at); param.data = min(max(param.data, lower), upper)
AttackParam(p) ==
    TMin(TMax(TAdd(data[p], RAt(p)), backup_eps[p][1]), backup_eps[p][2])

AttackData == [p \in ParamIds |-> IF Perturbed(p) THEN AttackParam(p) ELSE data[p]]

RestoreData == [p \in ParamIds |-> IF p \in DOMAIN backup THEN backup[p] ELSE data[p]]

\* the loss the forward pass computes, identified by the weights it read
ModelForward(d) == [weights |-> d]
NoLoss == [weights |-> EmptyMap]
NoPre == [data |-> EmptyMap, has_grad |-> {}, backup |-> EmptyMap, backup_eps |-> EmptyMap]
Snapshot ==
    [data |-> data, has_grad |-> {p \in ParamIds : grad[p] # None},
     backup |-> backup, backup_eps |-> backup_eps]

config_vars == <<adv_param, adv_lr, adv_eps>>

AwpInit ==
    /\ data = PretrainedData
    /\ grad = [p \in ParamIds |-> None]
    /\ grad_from = "none"
    /\ adv_param \in AdvParams
    /\ adv_lr \in AdvLrs
    /\ adv_eps \in AdvEpss
    /\ backup = EmptyMap
    /\ backup_eps = EmptyMap
    /\ pc = "idle"
    /\ adv_loss = NoLoss
    /\ calls = <<>>
    /\ pre = NoPre

\* attack_backward without `if self.adv_lr == 0: return`
AttackBackwardNoGuard ==
    /\ pc = "idle"
    /\ pre' = Snapshot
    /\ calls' = <<>>
    /\ pc' = "save"
    /\ UNCHANGED <<data, grad, grad_from, backup, backup_eps, adv_loss, config_vars>>

\* attack_backward is entered; with adv_lr == 0 it returns at once
AttackBackward ==
    /\ pc = "idle"
    /\ pre' = Snapshot
    /\ calls' = <<>>
    /\ pc' = IF adv_lr = 0 THEN "noop" ELSE "save"
    /\ UNCHANGED <<data, grad, grad_from, backup, backup_eps, adv_loss, config_vars>>

\* self._save()
Save ==
    /\ pc = "save"
    /\ backup' = SaveBackup
    /\ backup_eps' = SaveBackupEps
    /\ calls' = Append(calls, "_save")
    /\ pc' = "attack"
    /\ UNCHANGED <<data, grad, grad_from, adv_loss, pre, config_vars>>

\* self._attack_step()
AttackStep ==
    /\ pc = "attack"
    /\ data' = AttackData
    /\ calls' = Append(calls, "_attack_step")
    /\ pc' = "forward"
    /\ UNCHANGED <<grad, grad_from, backup, backup_eps, adv_loss, pre, config_vars>>

\* adv_loss, _ = self.model(...): the forward pass on the current weights
Forward ==
    /\ pc = "forward"
    /\ adv_loss' = ModelForward(data)
    /\ calls' = Append(calls, "forward")
    /\ pc' = "zero_grad"
    /\ UNCHANGED <<data, grad, grad_from, backup, backup_eps, pre, config_vars>>

\* an attack_backward that restored in a `finally`
RaiseAfterRestore ==
    /\ pc' = "raised"
    /\ adv_loss' = NoLoss
    /\ data' = RestoreData
    /\ backup' = EmptyMap
    /\ backup_eps' = EmptyMap
    /\ UNCHANGED <<grad, grad_from, calls, pre, config_vars>>

\* the exception leaves attack_backward: nothing after the raising call runs
Raise ==
    /\ pc' = "raised"
    /\ adv_loss' = NoLoss
    /\ UNCHANGED <<data, grad, grad_from, backup, backup_eps, calls, pre, config_vars>>

ForwardRaises ==
    /\ pc = "forward"
    /\ Raise

\* attack_backward without its optimizer.zero_grad()
ZeroGradMissing ==
    /\ pc = "zero_grad"
    /\ pc' = "backward"
    /\ UNCHANGED <<data, grad, grad_from, backup, backup_eps, adv_loss, calls, pre, config_vars>>

\* optimizer.zero_grad(): the slots become None (set_to_none) or zero tensors
ZeroGrad ==
    /\ pc = "zero_grad"
    /\ \E set_to_none \in BOOLEAN :
          grad' = [p \in ParamIds |->
                     IF grad[p] = None \/ set_to_none THEN None
                     ELSE TZeros(grad[p])]
    /\ grad_from' = "none"
    /\ calls' = Append(calls, "zero_grad")
    /\ pc' = "backward"
    /\ UNCHANGED <<data, backup, backup_eps, adv_loss, pre, config_vars>>

Trainable == {p \in ParamIds : RequiresGrad(p)}
\* the gradients one backward pass can produce
Gradients == {g \in [Trainable -> UNION {GradTensors(p) : p \in Trainable}] :
                \A p \in Trainable : g[p] \in GradTensors(p)}

\* a backward pass accumulates g into the slots of the trainable parameters
Accumulate(g) ==
    [p \in ParamIds |->
        IF ~RequiresGrad(p) THEN grad[p]
        ELSE IF grad[p] = None THEN g[p]
        ELSE TAdd(grad[p], g[p])]

\* accelerator.backward(adv_loss)
Backward ==
    /\ pc = "backward"
    /\ \E g \in Gradients : grad' = Accumulate(g)
    /\ grad_from' = IF grad_from = "none" THEN "adv" ELSE "mixed"
    /\ calls' = Append(calls, "backward")
    /\ pc' = "restore"
    /\ UNCHANGED <<data, backup, backup_eps, adv_loss, pre, config_vars>>

BackwardRaises ==
    /\ pc = "backward"
    /\ Raise

\* self._restore(), after which attack_backward returns
Restore ==
    /\ pc = "restore"
    /\ data' = RestoreData
    /\ backup' = EmptyMap
    /\ backup_eps' = EmptyMap
    /\ calls' = Append(calls, "_restore")
    /\ adv_loss' = NoLoss
    /\ pc' = "returned"
    /\ UNCHANGED <<grad, grad_from, pre, config_vars>>

\* attack_backward has returned, raised or done nothing: the caller goes on
Resume ==
    /\ pc \in {"noop", "raised", "returned"}
    /\ pc' = "idle"
    /\ pre' = NoPre
    /\ calls' = <<>>
    /\ UNCHANGED <<data, grad, grad_from, backup, backup_eps, adv_loss, config_vars>>

(***************************************************************************)
(* The training loop around attack_backward.                               *)
(***************************************************************************)
\* optimizer.zero_grad(); loss.backward() on the clean loss
TrainerBackward ==
    /\ pc = "idle"
    /\ \E g \in Gradients :
          grad' = [p \in ParamIds |-> IF RequiresGrad(p) THEN g[p] ELSE grad[p]]
    /\ grad_from' = "clean"
    /\ UNCHANGED <<data, backup, backup_eps, adv_loss, pc, calls, pre, config_vars>>

\* the parameters optimizer.step() updates, and the values it can give them
Stepped == {p \in Trainable : grad[p] # None}
Updates == {d \in [Stepped -> UNION {ParamTensors(p) : p \in Stepped}] :
              \A p \in Stepped : d[p] \in ParamTensors(p)}

\* optimizer.step(): rewrites every trainable parameter that has a gradient
OptimizerStep ==
    /\ pc = "idle"
    /\ Stepped # {}
    /\ \E d \in Updates :
          data' = [p \in ParamIds |-> IF p \in Stepped THEN d[p] ELSE data[p]]
    /\ UNCHANGED <<grad, grad_from, backup, backup_eps, adv_loss, pc, calls, pre, config_vars>>

(***************************************************************************)
(* Specifications.                                                         *)
(***************************************************************************)
\* the AWP training loop on a constructed model
Init ==
    /\ num_hidden_layers = NumHiddenLayers
    /\ layer_requires_grad =
          FreezeLayers(Pretrained(NumHiddenLayers), 0, ToFreezeLayer(NumHiddenLayers))
    /\ emb_requires_grad = FALSE
    /\ ctor_pc = "done"
    /\ ctor_i = 0
    /\ AwpInit

Next ==
    \/ AttackBackward /\ UNCHANGED ctor_vars
    \/ Save /\ UNCHANGED ctor_vars
    \/ AttackStep /\ UNCHANGED ctor_vars
    \/ Forward /\ UNCHANGED ctor_vars
    \/ ForwardRaises /\ UNCHANGED ctor_vars
    \/ ZeroGrad /\ UNCHANGED ctor_vars
    \/ Backward /\ UNCHANGED ctor_vars
    \/ BackwardRaises /\ UNCHANGED ctor_vars
    \/ Restore /\ UNCHANGED ctor_vars
    \/ Resume /\ UNCHANGED ctor_vars
    \/ TrainerBackward /\ UNCHANGED ctor_vars
    \/ OptimizerStep /\ UNCHANGED ctor_vars

Spec == Init /\ [][Next]_vars

\* the construction of the model wrapper, for every backbone depth
InitCtor ==
    /\ CtorInit
    /\ data = EmptyMap
    /\ grad = EmptyMap
    /\ grad_from = "none"
    /\ adv_param = weight
    /\ adv_lr = 1
    /\ adv_eps = 0
    /\ backup = EmptyMap
    /\ backup_eps = EmptyMap
    /\ pc = "unconstructed"
    /\ adv_loss = NoLoss
    /\ calls = <<>>
    /\ pre = NoPre

NextCtor ==
    \/ CtorFreezeLayer /\ UNCHANGED awp_vars
    \/ CtorLayersDone /\ UNCHANGED awp_vars
    \/ CtorFreezeEmbeddings /\ UNCHANGED awp_vars

SpecCtor == InitCtor /\ [][NextCtor]_vars

(***************************************************************************)
(* Properties.                                                             *)
(***************************************************************************)
\* the calls of one complete attack_backward, in order
FullOrder == <<"_save", "_attack_step", "forward", "zero_grad", "backward", "_restore">>

IsPrefix(a, b) == Len(a) <= Len(b) /\ SubSeq(b, 1, Len(a)) = a

\* lower <= value <= upper, elementwise
Within(t, interval) ==
    \A i \in DOMAIN t :
        /\ ~IsNaN(t[i]) /\ ~IsNaN(interval[1][i]) /\ ~IsNaN(interval[2][i])
        /\ FLe(interval[1][i], t[i])
        /\ FLe(t[i], interval[2][i])

ZeroOrNaN(x) == x = Fin(0) \/ IsNaN(x)

\* the parameters the filter matched when attack_backward was entered:
\* trainable, with a gradient, adv_param in the name
PreMatched ==
    {p \in ParamIds :
        /\ layer_requires_grad[LayerOf(p)]
        /\ p \in pre.has_grad
        /\ Contains(adv_param, Name(p))}

\* C1: when attack_backward returns, every parameter that matched the filter
\* when the call began has exactly the value it had when the call began.
C1_RoundTrip ==
    pc = "returned" => \A p \in PreMatched : data[p] = pre.data[p]

\* C2: backup and backup_eps always hold the same names, and they are non-empty
\* only between _save and _restore of a cycle: empty before attack_backward is
\* called and after a complete cycle returns.
C2_BackupWindow ==
    /\ DOMAIN backup = DOMAIN backup_eps
    /\ (pc \notin {"attack", "forward", "zero_grad", "backward", "restore"}
          => backup = EmptyMap /\ backup_eps = EmptyMap)

\* C3: immediately after _attack_step, with adv_eps >= 0, every matched
\* parameter lies elementwise inside the interval _save computed for it,
\* whatever the gradient.
C3_WithinInterval ==
    pc = "forward" /\ adv_eps >= 0 =>
        \A p \in ParamIds : Matched(p) => Within(data[p], backup_eps[p])

\* C4: with adv_lr = 0, attack_backward returns at once: it changes no
\* parameter, mapping or gradient and calls neither forward nor backward.
C4_ZeroLrNoOp ==
    /\ [](adv_lr = 0 => pc \in {"idle", "noop"} /\ calls = <<>>)
    /\ [][pc = "idle" /\ pc' # "idle" /\ adv_lr = 0 =>
            (/\ pc' = "noop"
             /\ UNCHANGED <<data, grad, grad_from, backup, backup_eps, adv_loss>>)]_vars

C4_Witness ==
    pc = "noop" /\ \E p \in ParamIds : Matched(p)

\* C5: a _save that finds entries left by an earlier _save (no _restore
\* between) leaves each of them, and its clamp interval, unchanged, even when
\* the parameter's value has changed; it can only add names.
C5_SaveKeepsEntries ==
    [][pc = "save" /\ pc' = "attack" =>
          \A p \in DOMAIN backup :
              /\ p \in DOMAIN backup' /\ p \in DOMAIN backup_eps'
              /\ backup'[p] = backup[p]
              /\ backup_eps'[p] = backup_eps[p]]_vars

C5_Witness ==
    /\ pc = "attack"
    /\ \E p \in DOMAIN pre.backup :
          /\ p \in PreMatched
          /\ pre.data[p] # pre.backup[p]
          /\ backup[p] = pre.backup[p]

\* C6: a matched parameter whose gradient norm is 0 or NaN has, after
\* _attack_step, the value it had before, and is in the backup mapping.
C6_ZeroOrNaNUntouched ==
    pc = "forward" =>
        \A p \in ParamIds :
            Matched(p) /\ ZeroOrNaN(Norm(grad[p])) =>
                data[p] = pre.data[p] /\ p \in DOMAIN backup

C6_Witness ==
    /\ pc = "forward"
    /\ \E p \in ParamIds : Matched(p) /\ IsNaN(Norm(grad[p])) /\ p \in DOMAIN backup

\* the zero-norm case of C6 is reached as well
C6_WitnessZero ==
    /\ pc = "forward"
    /\ \E p \in ParamIds : Matched(p) /\ Norm(grad[p]) = Fin(0) /\ p \in DOMAIN backup

\* C7: after construction with num_hidden_layers = n, exactly the encoder
\* layers below floor(0.4 * n) are frozen and the others are trainable; for
\* n = 10 these are layers 0 to 3.
C7_FreezingPolicy ==
    ctor_pc = "done" =>
        LET n == num_hidden_layers
            frozen == {i \in 0..(n - 1) : ~layer_requires_grad[i]}
        IN  /\ DOMAIN layer_requires_grad = 0..(n - 1)
            /\ frozen = {i \in 0..(n - 1) : 5 * (i + 1) <= 2 * n}
            /\ n = 10 => frozen = {0, 1, 2, 3}

C7_Witness ==
    ctor_pc = "done" /\ num_hidden_layers = 10 /\ ~emb_requires_grad

\* C8: attack_backward with adv_lr # 0 calls _save, _attack_step, forward,
\* zero_grad, backward, _restore in this order; the forward pass reads the
\* perturbed weights; the gradients present on return come from the
\* adversarial loss alone; and no optimizer step is taken.
C8_StepOrder ==
    /\ IsPrefix(calls, FullOrder)
    /\ (pc \in {"zero_grad", "backward", "restore"} => adv_loss = ModelForward(data))
    /\ (pc = "returned" =>
          /\ calls = FullOrder
          /\ grad_from = "adv"
          /\ \A p \in ParamIds :
                p \notin DOMAIN pre.backup /\ p \notin PreMatched => data[p] = pre.data[p])

C8_Witness ==
    /\ pc = "restore"
    /\ adv_loss.weights # pre.data
    /\ grad_from = "adv"

\* C9: when forward or backward raises, _restore is not run: data and the two
\* mappings stay as they are; the next call's _save keeps the old snapshot and
\* interval, _attack_step clamps against that interval and _restore writes
\* that snapshot back.
C9_AbortedCycle ==
    [][/\ (pc # "raised" /\ pc' = "raised" =>
            /\ UNCHANGED <<data, backup, backup_eps>>
            /\ PreMatched \subseteq DOMAIN backup
            /\ calls' \in {<<"_save", "_attack_step">>,
                           <<"_save", "_attack_step", "forward", "zero_grad">>})
       /\ (pc = "save" /\ pc' = "attack" =>
            \A p \in DOMAIN pre.backup :
                backup'[p] = pre.backup[p] /\ backup_eps'[p] = pre.backup_eps[p])
       /\ (pc = "attack" /\ pc' = "forward" =>
            \A p \in DOMAIN pre.backup :
                Perturbed(p) =>
                    data'[p] = TMin(TMax(TAdd(data[p], RAt(p)), pre.backup_eps[p][1]),
                                    pre.backup_eps[p][2]))
       /\ (pc = "restore" /\ pc' = "returned" =>
            \A p \in DOMAIN pre.backup : data'[p] = pre.backup[p])]_vars

C9_Witness ==
    /\ pc = "returned"
    /\ \E p \in DOMAIN pre.backup :
          /\ pre.data[p] # pre.backup[p]
          /\ data[p] = pre.backup[p]

\* C10: in a call entered with empty mappings, a parameter that is frozen, has
\* no gradient, or whose name does not contain adv_param keeps its value at
\* every point of the call and after it, and is in neither mapping.
C10_UnmatchedUntouched ==
    pc # "idle" /\ pre.backup = EmptyMap =>
        \A p \in ParamIds \ PreMatched :
            /\ data[p] = pre.data[p]
            /\ p \notin DOMAIN backup
            /\ p \notin DOMAIN backup_eps

C10_Witness ==
    /\ pc = "forward"
    /\ pre.backup = EmptyMap
    /\ data # pre.data
    /\ \E p \in ParamIds \ PreMatched :
          RequiresGrad(p) /\ grad[p] # None /\ ~Contains(adv_param, Name(p))
    /\ \E p \in ParamIds \ PreMatched : ~RequiresGrad(p)

=============================================================================
